---------------------------- MODULE Spec2Model ----------------------------
(***************************************************************************)
(* A model of src/data/data.cc of xgboost: MetaInfo (binary load, SetInfo), *)
(* SparsePage (Push, PushCSC, GetTranspose) and the DMatrix factory (Load,  *)
(* Create) with its distributed column-count reconciliation.                *)
(*                                                                          *)
(* C++ vectors are 0-indexed, TLA+ sequences 1-indexed: At(s, i) reads the  *)
(* element the source calls s[i].                                           *)
(***************************************************************************)
EXTENDS Integers, Sequences, FiniteSets, Bags, TLC

VARIABLES
  page,      \* SparsePage under test: [offset, data, base_rowid]
  prior,     \* the page as it was before the last operation
  arg,       \* the page handed to the last operation
  op,        \* name of the last operation applied ("" before any)
  tr,        \* GetTranspose run: [nthread, ncols, stage, trans, ...]
  cs,        \* PushCSC run: [slot: the pages by name, step, fatal]
  info,      \* MetaInfo under test
  before,    \* the MetaInfo as it was before the last operation
  call,      \* arguments of the last MetaInfo operation
  stream,    \* dmlc::Stream contents: a sequence of words
  proc,      \* distributed job: the worker of each rank
  coll,      \* distributed job: the contributions to the pending all-reduce
  ld         \* DMatrix::Load uri handling: inputs and results

vars == <<page, prior, arg, op, tr, cs, info, before, call, stream, proc, coll, ld>>

pageVars == <<page, prior, arg, tr, cs>>
metaVars == <<info, before, call, stream>>
distVars == <<proc, coll>>

\* value of the variables a specification does not use
Idle == "idle"

NoPages == page = Idle /\ prior = Idle /\ arg = Idle /\ tr = Idle /\ cs = Idle
NoMeta == info = Idle /\ before = Idle /\ call = Idle /\ stream = Idle
NoJob == proc = Idle /\ coll = Idle
NoLoad == ld = Idle

---------------------------------------------------------------------------
(* Bounds of the model *)

\* rows of a page handed to Push
MaxBatchRows == 2
\* entries of a page handed to Push
MaxBatchData == 2
\* entries a page accumulates before the model stops pushing
MaxData == 3
\* rows a page accumulates before the model stops pushing
MaxRows == 3
\* rows of a page handed to GetTranspose
MaxTRows == 2
\* entries of a page handed to GetTranspose
MaxTData == 3
\* columns of the matrix a transposed page belongs to
MaxCols == 2
\* largest base_rowid of a page handed to GetTranspose
MaxBase == 1
\* largest omp_get_max_threads()
MaxThreads == 2
\* columns of a column-keyed page handed to PushCSC
MaxCscCols == 2
\* entries of a column-keyed page handed to PushCSC
MaxCscData == 2
\* largest element count handed to SetInfo
MaxNum == 3
\* rabit::GetWorldSize() of the job that calls DMatrix::Create
WorldSize == 3
\* rabit::GetWorldSize() of the job that calls DMatrix::Load
LoadWorldSize == 2
\* characters of a uri handed to DMatrix::Load
MaxUriLen == 4

---------------------------------------------------------------------------
(* Sequences as C++ vectors *)

At(s, i) == s[i + 1]

Back(s) == s[Len(s)]

\* std::vector::resize(n): keeps the first n elements, value-initialises the rest
Resize(s, n, fill) == [i \in 1..n |-> IF i <= Len(s) THEN s[i] ELSE fill]

RECURSIVE SumSeq(_)
SumSeq(s) == IF s = <<>> THEN 0 ELSE s[1] + SumSeq(Tail(s))

---------------------------------------------------------------------------
(* SparsePage *)

Entry(index, fvalue) == [index |-> index, fvalue |-> fvalue]

ZeroEntry == Entry(0, 0)

\* SparsePage::SparsePage() -> Clear(): one offset 0, no data, base_rowid 0
EmptyPage == [offset |-> <<0>>, data |-> <<>>, base_rowid |-> 0]

\* SparsePage::Size(): number of rows
Size(p) == IF Len(p.offset) = 0 THEN 0 ELSE Len(p.offset) - 1

\* offset arrays of `rows` rows over `total` entries
OffsetSeqs(rows, total) ==
  {o \in [1..(rows + 1) -> 0..total] :
     /\ o[1] = 0
     /\ o[rows + 1] = total
     /\ \A i \in 1..rows : o[i] <= o[i + 1]}

\* Push copies entries and never inspects them: two distinct entries show
\* every reordering or loss
PushEntries == {Entry(0, 1), Entry(1, 2)}

\* well-formed pages of at most maxRows rows and maxData entries
PagesOf(maxRows, maxData, entries, bases) ==
  UNION {UNION {{[offset |-> o, data |-> d, base_rowid |-> b] :
                    o \in OffsetSeqs(r, k), d \in [1..k -> entries], b \in bases} :
                k \in 0..maxData} :
         r \in 0..maxRows}

BatchPages == PagesOf(MaxBatchRows, MaxBatchData, PushEntries, {0})

NoPage == [offset |-> <<>>, data |-> <<>>, base_rowid |-> 0]

\* Push with the prior total left out of the appended offsets
PushNoTop(p, batch) ==
  LET top == Back(p.offset)
      begin == Len(p.offset)
  IN [p EXCEPT
        !.data = [j \in 1..(top + Len(batch.data)) |->
                    IF j > top THEN batch.data[j - top]
                    ELSE IF j <= Len(p.data) THEN p.data[j] ELSE ZeroEntry],
        !.offset = [i \in 1..(begin + Size(batch)) |->
                      IF i <= begin THEN p.offset[i]
                      ELSE batch.offset[(i - begin) + 1]]]

\* SparsePage::Push(const SparsePage& batch)
Push(p, batch) ==
  LET top == Back(p.offset)
      begin == Len(p.offset)
  IN [p EXCEPT
        \* data_vec.resize(top + batch.data.Size()); memcpy at data_vec + top
        !.data = [j \in 1..(top + Len(batch.data)) |->
                    IF j > top THEN batch.data[j - top]
                    ELSE IF j <= Len(p.data) THEN p.data[j] ELSE ZeroEntry],
        \* offset_vec.resize(begin + batch.Size());
        \* offset_vec[i + begin] = top + batch_offset_vec[i + 1]
        !.offset = [i \in 1..(begin + Size(batch)) |->
                      IF i <= begin THEN p.offset[i]
                      ELSE top + batch.offset[(i - begin) + 1]]]

---------------------------------------------------------------------------
(* SpecPush: a page grown from empty by Push calls *)

InitPush ==
  /\ page = EmptyPage
  /\ prior = NoPage
  /\ arg = NoPage
  /\ op = ""
  /\ tr = Idle
  /\ cs = Idle
  /\ NoMeta /\ NoJob /\ NoLoad

DoPush ==
  \E batch \in BatchPages :
    /\ Len(page.data) + Len(batch.data) <= MaxData
    /\ Size(page) + Size(batch) <= MaxRows
    /\ page' = Push(page, batch)
    /\ prior' = page
    /\ arg' = batch
    /\ op' = "Push"
    /\ UNCHANGED <<tr, cs, metaVars, distVars, ld>>

NextPush == DoPush

SpecPush == InitPush /\ [][NextPush]_vars

\* offset[0] = 0, offset nondecreasing, offset.back() == data.size()
PageOk(p) ==
  /\ Len(p.offset) >= 1
  /\ At(p.offset, 0) = 0
  /\ \A i \in 1..(Len(p.offset) - 1) : p.offset[i] <= p.offset[i + 1]
  /\ Back(p.offset) = Len(p.data)

\* C1: after P.Push(Q), for well-formed P and Q, the offset length is
\* P.offset.size() + Q.offset.size() - 1, the data length is
\* P.data.size() + Q.data.size(), each appended offset is the prior total plus
\* Q.offset[i+1], the old rows and entries are kept, the data is the
\* concatenation, and P is still well formed; so every page grown from the
\* empty page by Push calls is well formed.
C1_PushConcatenates ==
  /\ PageOk(page)
  /\ op = "Push" =>
       LET priorTotal == Len(prior.data) IN
       /\ PageOk(prior) /\ PageOk(arg)
       /\ Len(page.offset) = Len(prior.offset) + Len(arg.offset) - 1
       /\ Len(page.data) = Len(prior.data) + Len(arg.data)
       /\ \A i \in 0..(Size(arg) - 1) :
            At(page.offset, Len(prior.offset) + i) = priorTotal + At(arg.offset, i + 1)
       /\ SubSeq(page.offset, 1, Len(prior.offset)) = prior.offset
       /\ page.data = prior.data \o arg.data

\* a non-empty page was pushed onto a non-empty page
C1_Witness ==
  /\ op = "Push"
  /\ Len(prior.data) > 0 /\ Size(prior) >= 1
  /\ Len(arg.data) > 1 /\ Size(arg) > 1
  /\ At(arg.offset, 1) > 0

---------------------------------------------------------------------------
(* ParallelGroupBuilder (common/group_data.h), as section 4.3 describes it *)

\* InitBudget(numGroups, numThreads): a zeroed counter per (thread, group)
InitBudget(ngroup, nthread) ==
  [thread_rptr |-> [t \in 0..(nthread - 1) |-> [g \in 0..(ngroup - 1) |-> 0]],
   rptr |-> <<0>>,
   data |-> <<>>]

\* AddBudget(groupId, threadId): the thread's own counter of the group
AddBudget(b, g, t) ==
  [b EXCEPT !.thread_rptr[t][g] = @ + 1]

\* entries budgeted for groups below g, by all threads
RECURSIVE GroupStart(_, _)
GroupStart(b, g) ==
  IF g = 0 THEN 0
  ELSE GroupStart(b, g - 1)
       + SumSeq([k \in 1..Cardinality(DOMAIN b.thread_rptr) |->
                   b.thread_rptr[k - 1][g - 1]])

\* InitStorage(): group g's segment starts after the groups below it; inside
\* it thread t's sub-range starts after the threads below t
InitStorage(b) ==
  LET nthread == Cardinality(DOMAIN b.thread_rptr)
      ngroup == Cardinality(DOMAIN b.thread_rptr[0])
  IN [thread_rptr |->
        [t \in 0..(nthread - 1) |->
           [g \in 0..(ngroup - 1) |->
              GroupStart(b, g)
              + SumSeq([k \in 1..t |-> b.thread_rptr[k - 1][g]])]],
      rptr |-> [i \in 1..(ngroup + 1) |-> GroupStart(b, i - 1)],
      data |-> [j \in 1..GroupStart(b, ngroup) |-> ZeroEntry]]

\* Push(groupId, value, threadId): write at the thread's cursor, advance it
BuilderPush(b, g, value, t) ==
  LET rp == b.thread_rptr[t][g]
  IN [b EXCEPT !.data[rp + 1] = value,
               !.thread_rptr[t][g] = rp + 1]

---------------------------------------------------------------------------
(* SparsePage::GetTranspose *)

\* (*this)[i]: the entries of row i
Inst(p, i) == SubSeq(p.data, At(p.offset, i) + 1, At(p.offset, i + 1))

\* the (row, entry) pairs the two loops visit, rows ascending
RECURSIVE Visits(_, _)
Visits(p, i) ==
  IF i >= Size(p) THEN <<>>
  ELSE [k \in 1..Len(Inst(p, i)) |-> [row |-> i, entry |-> Inst(p, i)[k]]]
       \o Visits(p, i + 1)

\* schedule(static): each thread takes one contiguous chunk of the rows, in
\* thread order; tidOf[i + 1] is omp_get_thread_num() in iteration i
Schedules(nrows, nthread) ==
  {f \in [1..nrows -> 0..(nthread - 1)] :
     \A i \in 1..(nrows - 1) : f[i] <= f[i + 1]}

\* first loop: builder.AddBudget(entry.index, tid)
RECURSIVE CountPass(_, _, _, _)
CountPass(b, visits, tidOf, k) ==
  IF k > Len(visits) THEN b
  ELSE CountPass(AddBudget(b, visits[k].entry.index, tidOf[visits[k].row + 1]),
                 visits, tidOf, k + 1)

\* second loop with the row recorded without base_rowid
RECURSIVE FillPassNoBase(_, _, _, _, _)
FillPassNoBase(b, p, visits, tidOf, k) ==
  IF k > Len(visits) THEN b
  ELSE FillPassNoBase(
         BuilderPush(b, visits[k].entry.index,
                     Entry(visits[k].row, visits[k].entry.fvalue),
                     tidOf[visits[k].row + 1]),
         p, visits, tidOf, k + 1)

\* second loop: builder.Push(entry.index,
\*                           Entry(base_rowid + i, entry.fvalue), tid)
RECURSIVE FillPass(_, _, _, _, _)
FillPass(b, p, visits, tidOf, k) ==
  IF k > Len(visits) THEN b
  ELSE FillPass(
         BuilderPush(b, visits[k].entry.index,
                     Entry(p.base_rowid + visits[k].row, visits[k].entry.fvalue),
                     tidOf[visits[k].row + 1]),
         p, visits, tidOf, k + 1)

GetTranspose(p, num_columns, nthread, tidOf) ==
  LET visits == Visits(p, 0)
      counted == CountPass(InitBudget(num_columns, nthread), visits, tidOf, 1)
      filled == FillPass(InitStorage(counted), p, visits, tidOf, 1)
  IN [offset |-> filled.rptr, data |-> filled.data, base_rowid |-> 0]

\* every key the page would hand the builder has a counter
KeysBelow(p, ngroup) == \A k \in 1..Len(p.data) : p.data[k].index < ngroup

---------------------------------------------------------------------------
(* SpecTranspose: a row page transposed, and the result transposed back *)

\* row pages: entry k carries value k (values are copied, never inspected,
\* so distinct values show every loss or duplication)
RowPages ==
  UNION {UNION {{[offset |-> o,
                  data |-> [k \in 1..n |-> Entry(c[k], k)],
                  base_rowid |-> b] :
                    o \in OffsetSeqs(r, n), c \in [1..n -> 0..(MaxCols - 1)],
                    b \in 0..MaxBase} :
                n \in 0..MaxTData} :
         r \in 0..MaxTRows}

InitTranspose ==
  /\ page \in RowPages
  /\ prior = NoPage
  /\ arg = NoPage
  /\ op = ""
  /\ cs = Idle
  /\ NoMeta /\ NoJob /\ NoLoad
  /\ \E n \in 1..MaxThreads, c \in 1..MaxCols :
       /\ KeysBelow(page, c)
       /\ tr = [nthread |-> n, ncols |-> c, stage |-> "page",
                trans |-> NoPage, trans2 |-> NoPage]

\* trans = page.GetTranspose(ncols)
TransposeOnce ==
  /\ tr.stage = "page"
  /\ \E tidOf \in Schedules(Size(page), tr.nthread) :
       tr' = [tr EXCEPT !.stage = "once",
                        !.trans = GetTranspose(page, tr.ncols, tr.nthread, tidOf)]
  /\ op' = "GetTranspose"
  /\ UNCHANGED <<page, prior, arg, cs, metaVars, distVars, ld>>

\* trans2 = trans.GetTranspose(page.Size())
TransposeBack ==
  /\ tr.stage = "once"
  /\ KeysBelow(tr.trans, Size(page))
  /\ \E tidOf \in Schedules(Size(tr.trans), tr.nthread) :
       tr' = [tr EXCEPT !.stage = "twice",
                        !.trans2 = GetTranspose(tr.trans, Size(page), tr.nthread, tidOf)]
  /\ op' = "GetTranspose"
  /\ UNCHANGED <<page, prior, arg, cs, metaVars, distVars, ld>>

NextTranspose == TransposeOnce \/ TransposeBack

SpecTranspose == InitTranspose /\ [][NextTranspose]_vars

BagOfSeq(s) ==
  [x \in {s[k] : k \in DOMAIN s} |-> Cardinality({k \in DOMAIN s : s[k] = x})]

\* (row, column, value) of the entries of a row-keyed page
RowTriples(p) ==
  BagOfSeq([k \in 1..Len(Visits(p, 0)) |->
              <<p.base_rowid + Visits(p, 0)[k].row,
                Visits(p, 0)[k].entry.index,
                Visits(p, 0)[k].entry.fvalue>>])

\* (row, column, value) of the entries of a column-keyed page
ColTriples(p) ==
  BagOfSeq([k \in 1..Len(Visits(p, 0)) |->
              <<Visits(p, 0)[k].entry.index,
                p.base_rowid + Visits(p, 0)[k].row,
                Visits(p, 0)[k].entry.fvalue>>])

---------------------------------------------------------------------------
(* SpecThreads: GetTranspose with the iterations of its two parallel loops *)
(* taken one builder call at a time, in any order the threads allow       *)

\* the builder calls of thread t in either loop: its rows ascending, the
\* entries of a row in order
ThreadVisits(p, tidOf, t) ==
  LET Mine(v) == tidOf[v.row + 1] = t
  IN SelectSeq(Visits(p, 0), Mine)

\* the builder over the fresh page `transpose`
NewBuilder == [thread_rptr |-> <<>>, rptr |-> <<0>>, data |-> <<>>]

\* base_rowid goes into the value a call writes, never into the slot it
\* writes to: one base_rowid other than 0 is enough
ThreadPages == {p \in RowPages : p.base_rowid = MaxBase}

InitThreads ==
  /\ page \in ThreadPages
  /\ prior = NoPage
  /\ arg = NoPage
  /\ op = ""
  /\ cs = Idle
  /\ NoMeta /\ NoJob /\ NoLoad
  /\ \E n \in 1..MaxThreads, c \in 1..MaxCols :
       /\ KeysBelow(page, c)
       /\ tr = [nthread |-> n, ncols |-> c, stage |-> "call", tidOf |-> <<>>,
                visits |-> <<>>,
                builder |-> NewBuilder, cursor |-> <<>>,
                budgeted |-> <<>>, pushed |-> <<>>, range |-> <<>>,
                writers |-> <<>>, stray |-> {}, trans |-> NoPage]

Threads == 0..(tr.nthread - 1)

\* builder.InitBudget(num_columns, nthread); the first loop starts, its
\* iterations dealt to the threads: visits[t] are the builder calls thread t
\* is to make, in either loop
EnterTranspose ==
  /\ tr.stage = "call"
  /\ \E tidOf \in Schedules(Size(page), tr.nthread) :
       tr' = [tr EXCEPT !.stage = "count",
                        !.tidOf = tidOf,
                        !.visits = [t \in Threads |->
                                      ThreadVisits(page, tidOf, t)],
                        !.builder = InitBudget(tr.ncols, tr.nthread),
                        !.cursor = [t \in Threads |-> 0],
                        !.budgeted = [t \in Threads |-> <<>>],
                        !.pushed = [t \in Threads |-> <<>>]]
  /\ UNCHANGED <<page, prior, arg, op, cs, metaVars, distVars, ld>>

\* first loop, one iteration of the inner loop on thread t:
\* builder.AddBudget(entry.index, tid)
AddBudgetStep(t) ==
  /\ tr.stage = "count"
  /\ tr.cursor[t] < Len(tr.visits[t])
  /\ LET v == tr.visits[t][tr.cursor[t] + 1]
     IN tr' = [tr EXCEPT
                 !.builder = AddBudget(tr.builder, v.entry.index, t),
                 !.budgeted[t] = Append(@, <<v.entry.index, t>>),
                 !.cursor[t] = @ + 1]
  /\ UNCHANGED <<page, prior, arg, op, cs, metaVars, distVars, ld>>

\* every thread has left the first loop: builder.InitStorage(); the second
\* loop starts.  range[t][g] is the sub-range the call leaves to thread t in
\* group g: from its cursor, as many slots as it budgeted
InitStorageStep ==
  /\ tr.stage = "count"
  /\ \A t \in Threads : tr.cursor[t] = Len(tr.visits[t])
  /\ LET stored == InitStorage(tr.builder)
     IN tr' = [tr EXCEPT
                 !.stage = "fill",
                 !.builder = stored,
                 !.cursor = [t \in Threads |-> 0],
                 !.range = [t \in Threads |->
                              [g \in 0..(tr.ncols - 1) |->
                                 [lo |-> stored.thread_rptr[t][g],
                                  hi |-> stored.thread_rptr[t][g]
                                         + tr.builder.thread_rptr[t][g]]]],
                 !.writers = [j \in 1..Len(stored.data) |-> <<>>]]
  /\ UNCHANGED <<page, prior, arg, op, cs, metaVars, distVars, ld>>

\* the second loop's iteration with thread 0 named in every call to Push
PushStepThreadZero(t) ==
  /\ tr.stage = "fill"
  /\ tr.cursor[t] < Len(tr.visits[t])
  /\ LET v == tr.visits[t][tr.cursor[t] + 1]
         g == v.entry.index
         tid == 0
         slot == tr.builder.thread_rptr[tid][g]
         inside == slot < Len(tr.builder.data)
     IN tr' = [tr EXCEPT
                 !.builder =
                    IF inside
                    THEN BuilderPush(tr.builder, g,
                                     Entry(page.base_rowid + v.row, v.entry.fvalue),
                                     tid)
                    ELSE [tr.builder EXCEPT !.thread_rptr[tid][g] = slot + 1],
                 !.pushed[t] = Append(@, <<g, tid>>),
                 !.writers = IF inside
                             THEN [@ EXCEPT ![slot + 1] = Append(@, <<g, tid>>)]
                             ELSE @,
                 !.stray = IF inside THEN @ ELSE @ \cup {<<slot, g, tid>>},
                 !.cursor[t] = @ + 1]
  /\ UNCHANGED <<page, prior, arg, op, cs, metaVars, distVars, ld>>

\* second loop, one iteration of the inner loop on thread t:
\* builder.Push(entry.index, Entry(base_rowid + i, entry.fvalue), tid).
\* writers[j] lists the calls that wrote data[j - 1]; a write past the end of
\* the data array is kept in stray
PushStep(t) ==
  /\ tr.stage = "fill"
  /\ tr.cursor[t] < Len(tr.visits[t])
  /\ LET v == tr.visits[t][tr.cursor[t] + 1]
         g == v.entry.index
         slot == tr.builder.thread_rptr[t][g]
         inside == slot < Len(tr.builder.data)
     IN tr' = [tr EXCEPT
                 !.builder =
                    IF inside
                    THEN BuilderPush(tr.builder, g,
                                     Entry(page.base_rowid + v.row, v.entry.fvalue),
                                     t)
                    ELSE [tr.builder EXCEPT !.thread_rptr[t][g] = slot + 1],
                 !.pushed[t] = Append(@, <<g, t>>),
                 !.writers = IF inside
                             THEN [@ EXCEPT ![slot + 1] = Append(@, <<g, t>>)]
                             ELSE @,
                 !.stray = IF inside THEN @ ELSE @ \cup {<<slot, g, t>>},
                 !.cursor[t] = @ + 1]
  /\ UNCHANGED <<page, prior, arg, op, cs, metaVars, distVars, ld>>

\* every thread has left the second loop: return transpose
ReturnTranspose ==
  /\ tr.stage = "fill"
  /\ \A t \in Threads : tr.cursor[t] = Len(tr.visits[t])
  /\ tr' = [tr EXCEPT !.stage = "done",
                      !.trans = [offset |-> tr.builder.rptr,
                                 data |-> tr.builder.data,
                                 base_rowid |-> 0]]
  /\ op' = "GetTranspose"
  /\ UNCHANGED <<page, prior, arg, cs, metaVars, distVars, ld>>

NextThreads ==
  \/ EnterTranspose
  \/ \E t \in Threads : AddBudgetStep(t)
  \/ InitStorageStep
  \/ \E t \in Threads : PushStep(t)
  \/ ReturnTranspose

SpecThreads == InitThreads /\ [][NextThreads]_vars

\* the sub-ranges of two distinct (thread, group) pairs share no slot
RangesDisjoint ==
  \A t1, t2 \in Threads : \A g1, g2 \in 0..(tr.ncols - 1) :
    <<t1, g1>> # <<t2, g2>> =>
      \/ tr.range[t1][g1].hi <= tr.range[t2][g2].lo
      \/ tr.range[t2][g2].hi <= tr.range[t1][g1].lo

\* C11: for a page whose column indices are all below num_columns and a fixed
\* thread count, under every interleaving of the threads: the calls a thread
\* has made in the fill pass are, in order, the (column, thread) calls it made
\* in the count pass; the output data array has exactly one slot per entry of
\* the page; every write lands inside the sub-range InitStorage left to the
\* writing thread for that column; no slot is written twice; and when the fill
\* pass is over every thread has replayed all of its calls, every slot has
\* been written exactly once and the page returned is the one the loops build
\* when run one row after the other.
C11_FillWritesDisjointRanges ==
  /\ tr.stage \in {"fill", "done"} =>
       /\ \A t \in Threads :
            /\ Len(tr.pushed[t]) <= Len(tr.budgeted[t])
            /\ SubSeq(tr.budgeted[t], 1, Len(tr.pushed[t])) = tr.pushed[t]
       /\ Len(tr.builder.data) = Len(page.data)
       /\ RangesDisjoint
       /\ tr.stray = {}
       /\ \A j \in 1..Len(tr.writers) :
            /\ Len(tr.writers[j]) <= 1
            /\ \A k \in 1..Len(tr.writers[j]) :
                 LET g == tr.writers[j][k][1]
                     t == tr.writers[j][k][2]
                 IN tr.range[t][g].lo <= j - 1 /\ j - 1 < tr.range[t][g].hi
  /\ tr.stage = "done" =>
       /\ \A t \in Threads : tr.pushed[t] = tr.budgeted[t]
       /\ \A j \in 1..Len(tr.writers) : Len(tr.writers[j]) = 1
       /\ tr.trans = GetTranspose(page, tr.ncols, tr.nthread, tr.tidOf)

\* in the fill pass thread 1 has written into a column while thread 0, which
\* has entries of the same column to write, has not yet written anything
C11_Witness ==
  /\ tr.stage = "fill"
  /\ tr.nthread > 1
  /\ tr.cursor[0] = 0
  /\ tr.cursor[1] >= 1
  /\ \E g \in 0..(tr.ncols - 1) :
       /\ <<g, 1>> = tr.pushed[1][1]
       /\ tr.range[0][g].lo < tr.range[0][g].hi

---------------------------------------------------------------------------
(* SparsePage::PushCSC *)

\* the merge loop with other's column read from the start of other's data
RECURSIVE MergeColumnsFromZero(_, _, _, _, _, _)
MergeColumnsFromZero(self, other, i, beg, data, offset) ==
  IF i >= Len(other.offset) - 1 THEN [data |-> data, offset |-> offset]
  ELSE
    LET self_beg == At(self.offset, i)
        self_length == At(self.offset, i + 1) - self_beg
        other_length == At(other.offset, i + 1) - At(other.offset, i)
        mid == beg + self_length
        top == mid + other_length
    IN MergeColumnsFromZero(
         self, other, i + 1, top,
         [j \in 1..Len(data) |->
            IF beg < j /\ j <= mid THEN self.data[self_beg + (j - beg)]
            ELSE IF mid < j /\ j <= top THEN other.data[j - mid]
            ELSE data[j]],
         [offset EXCEPT ![i + 2] = top])

\* for (i = 0; i < n_features; ++i): self's column i, then other's column i,
\* copied at beg; offset.at(ptr) = beg
RECURSIVE MergeColumns(_, _, _, _, _, _)
MergeColumns(self, other, i, beg, data, offset) ==
  IF i >= Len(other.offset) - 1 THEN [data |-> data, offset |-> offset]
  ELSE
    LET self_beg == At(self.offset, i)
        self_length == At(self.offset, i + 1) - self_beg
        other_beg == At(other.offset, i)
        other_length == At(other.offset, i + 1) - other_beg
        mid == beg + self_length
        top == mid + other_length
    IN MergeColumns(
         self, other, i + 1, top,
         [j \in 1..Len(data) |->
            IF beg < j /\ j <= mid THEN self.data[self_beg + (j - beg)]
            ELSE IF mid < j /\ j <= top THEN other.data[other_beg + (j - mid)]
            ELSE data[j]],
         [offset EXCEPT ![i + 2] = top])

\* PushCSC with the copy into an empty self left out
PushCSCNoCopy(self, batch) ==
  IF Len(batch.data) = 0 \/ Len(self.data) = 0
    THEN [fatal |-> FALSE, page |-> self]
  ELSE IF Len(self.offset) # Len(batch.offset)
    THEN [fatal |-> TRUE, page |-> self]
  ELSE
    LET merged == MergeColumns(
                    self, batch, 0, 0,
                    [j \in 1..(Len(self.data) + Len(batch.data)) |-> ZeroEntry],
                    [i \in 1..Len(batch.offset) |-> 0])
    IN [fatal |-> FALSE,
        page |-> [self EXCEPT !.data = merged.data, !.offset = merged.offset]]

\* SparsePage::PushCSC(const SparsePage& batch): the page afterwards, and
\* whether a CHECK failed (a failed CHECK throws before self is written)
PushCSC(self, batch) ==
  IF Len(batch.data) = 0
    \* if (other_data.empty()) return;
    THEN [fatal |-> FALSE, page |-> self]
  ELSE IF Len(self.data) = 0
    \* self_data = other_data; self_offset = other_offset; return;
    THEN [fatal |-> FALSE,
          page |-> [self EXCEPT !.data = batch.data, !.offset = batch.offset]]
  ELSE IF Len(self.offset) # Len(batch.offset)
    \* CHECK_EQ(self_offset.size(), other_offset.size())
    THEN [fatal |-> TRUE, page |-> self]
  ELSE
    LET merged == MergeColumns(
                    self, batch, 0, 0,
                    [j \in 1..(Len(self.data) + Len(batch.data)) |-> ZeroEntry],
                    [i \in 1..Len(batch.offset) |-> 0])
    IN [fatal |-> FALSE,
        page |-> [self EXCEPT !.data = merged.data, !.offset = merged.offset]]

---------------------------------------------------------------------------
(* SpecCSC: three column-keyed pages A, B, C merged as (A,B),C and A,(B,C) *)

\* column-keyed pages; entry k of the page tagged t is Entry(k, t), so that
\* all entries of the three pages differ (PushCSC copies entries and never
\* inspects them)
CscPages(tag) ==
  UNION {UNION {{[offset |-> o,
                  data |-> [k \in 1..n |-> Entry(k, tag)],
                  base_rowid |-> 0] : o \in OffsetSeqs(c, n)} :
                n \in 0..MaxCscData} :
         c \in 0..MaxCscCols}

\* the calls, in order: self and batch of each, and where the result is kept
Plan ==
  <<[dst |-> "AB", self |-> "A", batch |-> "B"],
    [dst |-> "L", self |-> "AB", batch |-> "C"],
    [dst |-> "BC", self |-> "B", batch |-> "C"],
    [dst |-> "R", self |-> "A", batch |-> "BC"]>>

InitCSC ==
  /\ page = NoPage
  /\ prior = NoPage
  /\ arg = NoPage
  /\ op = ""
  /\ tr = Idle
  /\ NoMeta /\ NoJob /\ NoLoad
  /\ \E a \in CscPages(1), b \in CscPages(2), c \in CscPages(3) :
       cs = [slot |-> [n \in {"A", "B", "C", "AB", "BC", "L", "R"} |->
                         CASE n = "A" -> a
                           [] n = "B" -> b
                           [] n = "C" -> c
                           [] OTHER -> NoPage],
             step |-> 0,
             fatal |-> FALSE]

\* slot[dst] = copy of slot[self]; slot[dst].PushCSC(slot[batch])
DoPushCSC ==
  /\ cs.step < Len(Plan)
  /\ ~cs.fatal
  /\ LET todo == Plan[cs.step + 1]
         res == PushCSC(cs.slot[todo.self], cs.slot[todo.batch])
     IN /\ cs' = [cs EXCEPT !.slot[todo.dst] = res.page,
                            !.step = @ + 1,
                            !.fatal = res.fatal]
        /\ prior' = cs.slot[todo.self]
        /\ arg' = cs.slot[todo.batch]
        /\ page' = res.page
        /\ op' = IF res.fatal THEN "fatal" ELSE "PushCSC"
  /\ UNCHANGED <<tr, metaVars, distVars, ld>>

NextCSC == DoPushCSC

SpecCSC == InitCSC /\ [][NextCSC]_vars

\* a PushCSC call has been made
Called == cs.step > 0

\* the entries of column i
Column(p, i) == BagOfSeq(Inst(p, i))

C7_PushCSCAssociative ==
  (/\ cs.step = Len(Plan)
   /\ Len(cs.slot["A"].offset) = Len(cs.slot["B"].offset)
   /\ Len(cs.slot["B"].offset) = Len(cs.slot["C"].offset)) =>
    /\ ~cs.fatal
    /\ PageOk(cs.slot["L"]) /\ PageOk(cs.slot["R"])
    /\ Len(cs.slot["L"].offset) = Len(cs.slot["R"].offset)
    /\ \A i \in 0..(Size(cs.slot["L"]) - 1) :
         Column(cs.slot["L"], i) = Column(cs.slot["R"], i)

\* three pages with entries in both of two columns have been merged both ways
C7_Witness ==
  /\ cs.step = Len(Plan)
  /\ ~cs.fatal
  /\ \A n \in {"A", "B", "C"} :
       /\ Size(cs.slot[n]) = 2
       /\ At(cs.slot[n].offset, 1) = 1
       /\ Len(cs.slot[n].data) = 2
  /\ Len(cs.slot["L"].data) = 6

---------------------------------------------------------------------------
(* MetaInfo *)

\* MetaInfo after construction or Clear()
ClearedInfo ==
  [num_row_ |-> 0, num_col_ |-> 0, num_nonzero_ |-> 0,
   labels_ |-> <<>>, group_ptr_ |-> <<>>, weights_ |-> <<>>,
   base_margin_ |-> <<>>]

\* a MetaInfo in use: 4 rows in two groups.  float values are held in halves
\* (3 stands for 1.5), so that a conversion to an integer type loses something
PopulatedInfo ==
  [num_row_ |-> 4, num_col_ |-> 3, num_nonzero_ |-> 9,
   labels_ |-> <<2, 0, 2, 3>>, group_ptr_ |-> <<0, 1, 4>>, weights_ |-> <<1, 4>>,
   base_margin_ |-> <<1>>]

InitialInfos == {ClearedInfo, PopulatedInfo}

\* MetaInfo::Clear
Clear(m) == ClearedInfo

\* the four element types of SetInfo, and a tag outside them
FloatTypes == {"kFloat32", "kDouble"}
UIntTypes == {"kUInt32", "kUInt64"}
DataTypes == FloatTypes \cup UIntTypes

\* buffer elements by type: floats in halves (5 stands for 2.5), integers plain
BufferValues(dtype) == IF dtype \in FloatTypes THEN {4, 5, 6, 10} ELSE {2, 3, 5}

\* std::copy into a vector<bst_float>
ToFloat(dtype, v) == IF dtype \in FloatTypes THEN v ELSE 2 * v

\* std::copy into a vector<bst_group_t>: a float is cut to its integer part
ToGroup(dtype, v) == IF dtype \in FloatTypes THEN v \div 2 ELSE v

\* for (i = 1; i < group_ptr_.size(); ++i)
\*   group_ptr_[i] = group_ptr_[i - 1] + group_ptr_[i];
RECURSIVE Accumulate(_, _)
Accumulate(g, i) ==
  IF i >= Len(g) THEN g
  ELSE Accumulate([g EXCEPT ![i + 1] = At(g, i - 1) + At(g, i)], i + 1)

\* the "group" branch with the running sum left out
SetGroupNoSum(m, dtype, dptr, num) ==
  LET resized == Resize(m.group_ptr_, num + 1, 0)
      copied == [i \in 1..(num + 1) |->
                   IF i = 1 THEN resized[1] ELSE ToGroup(dtype, dptr[i - 1])]
  IN [m EXCEPT !.group_ptr_ = [copied EXCEPT ![1] = 0]]

\* the "group" branch of SetInfo: resize(num + 1), copy at begin() + 1,
\* group_ptr_[0] = 0, running sum in place
SetGroup(m, dtype, dptr, num) ==
  LET resized == Resize(m.group_ptr_, num + 1, 0)
      copied == [i \in 1..(num + 1) |->
                   IF i = 1 THEN resized[1] ELSE ToGroup(dtype, dptr[i - 1])]
  IN [m EXCEPT !.group_ptr_ = Accumulate([copied EXCEPT ![1] = 0], 1)]

\* resize(num), std::copy into a float array
CopyFloats(old, dtype, dptr, num) == [i \in 1..num |-> ToFloat(dtype, dptr[i])]

\* MetaInfo::SetInfo(key, dptr, dtype, num): the MetaInfo afterwards and
\* whether LOG(FATAL) was reached.  Each branch resizes its array before the
\* dispatch on dtype, so an unknown dtype leaves the array resized.
SetInfo(m, key, dptr, dtype, num) ==
  CASE key = "label" ->
         IF dtype \in DataTypes
           THEN [fatal |-> FALSE,
                 info |-> [m EXCEPT !.labels_ = CopyFloats(@, dtype, dptr, num)]]
           ELSE [fatal |-> TRUE,
                 info |-> [m EXCEPT !.labels_ = Resize(@, num, 0)]]
    [] key = "weight" ->
         IF dtype \in DataTypes
           THEN [fatal |-> FALSE,
                 info |-> [m EXCEPT !.weights_ = CopyFloats(@, dtype, dptr, num)]]
           ELSE [fatal |-> TRUE,
                 info |-> [m EXCEPT !.weights_ = Resize(@, num, 0)]]
    [] key = "base_margin" ->
         IF dtype \in DataTypes
           THEN [fatal |-> FALSE,
                 info |-> [m EXCEPT !.base_margin_ = CopyFloats(@, dtype, dptr, num)]]
           ELSE [fatal |-> TRUE,
                 info |-> [m EXCEPT !.base_margin_ = Resize(@, num, 0)]]
    [] key = "group" ->
         IF dtype \in DataTypes
           THEN [fatal |-> FALSE, info |-> SetGroup(m, dtype, dptr, num)]
           ELSE [fatal |-> TRUE,
                 info |-> [m EXCEPT !.group_ptr_ = Resize(@, num + 1, 0)]]
    [] OTHER -> [fatal |-> TRUE, info |-> m]

---------------------------------------------------------------------------
(* SpecSetInfo: one SetInfo or Clear call on a MetaInfo *)

Keys == {"label", "weight", "base_margin", "group", "colour"}

InitSetInfo ==
  /\ NoPages /\ NoJob /\ NoLoad
  /\ op = ""
  /\ info \in InitialInfos
  /\ before = info
  /\ call = Idle
  /\ stream = <<>>

DoSetInfo ==
  /\ op = ""
  /\ \E key \in Keys, dtype \in DataTypes \cup {"kOther"}, num \in 0..MaxNum :
       \E dptr \in [1..num -> BufferValues(dtype)] :
         LET res == SetInfo(info, key, dptr, dtype, num)
         IN /\ info' = res.info
            /\ before' = info
            /\ call' = [key |-> key, dtype |-> dtype, dptr |-> dptr, num |-> num]
            /\ op' = IF res.fatal THEN "fatal" ELSE "SetInfo"
  /\ UNCHANGED <<pageVars, stream, distVars, ld>>

DoClear ==
  /\ op = ""
  /\ info' = Clear(info)
  /\ before' = info
  /\ call' = Idle
  /\ op' = "Clear"
  /\ UNCHANGED <<pageVars, stream, distVars, ld>>

NextSetInfo == DoSetInfo \/ DoClear

SpecSetInfo == InitSetInfo /\ [][NextSetInfo]_vars

\* the per-group sizes the buffer holds, for the buffers that hold whole
\* numbers (a float buffer is in halves)
IsWhole(dtype, dptr) ==
  dtype \in FloatTypes => \A i \in DOMAIN dptr : dptr[i] % 2 = 0

SizeOf(dtype, v) == IF dtype \in FloatTypes THEN v \div 2 ELSE v

\* C10: SetInfo("group", sizes, count) with sizes of any of the four element
\* types sets group_ptr_ to count + 1 boundaries, group_ptr_[0] = 0 and
\* group_ptr_[i] = sizes[0] + ... + sizes[i-1], and leaves every other field
\* as it was; [3,5,2] gives [0,3,8,10].
C10_GroupPrefixSums ==
  (op = "SetInfo" /\ call.key = "group" /\ IsWhole(call.dtype, call.dptr)) =>
    /\ Len(info.group_ptr_) = call.num + 1
    /\ At(info.group_ptr_, 0) = 0
    /\ \A i \in 1..call.num :
         At(info.group_ptr_, i) =
           SumSeq([k \in 1..i |-> SizeOf(call.dtype, call.dptr[k])])
    /\ info = [before EXCEPT !.group_ptr_ = info.group_ptr_]
    /\ [k \in 1..call.num |-> SizeOf(call.dtype, call.dptr[k])] = <<3, 5, 2>>
         => info.group_ptr_ = <<0, 3, 8, 10>>

\* sizes [3,5,2], handed over as 32-bit floats, replaced the two groups of a
\* MetaInfo in use by [0,3,8,10]
C10_Witness ==
  /\ op = "SetInfo" /\ call.key = "group"
  /\ call.dtype = "kFloat32" /\ call.dptr = <<6, 10, 4>>
  /\ before = PopulatedInfo
  /\ info.group_ptr_ = <<0, 3, 8, 10>>
  /\ info.labels_ = <<2, 0, 2, 3>>

---------------------------------------------------------------------------
(* MetaInfo::SaveBinary and MetaInfo::LoadBinary *)

\* the major version LoadBinary accepts
SupportedMajor == 1

\* fo->Write(vector): the length, then the elements
WriteVec(v) == <<Len(v)>> \o v

\* MetaInfo::SaveBinary, the version tag written as its major number
SaveBinary(m, major) ==
  <<major, m.num_row_, m.num_col_, m.num_nonzero_>>
  \o WriteVec(m.labels_) \o WriteVec(m.group_ptr_)
  \o WriteVec(m.weights_) \o WriteVec(m.base_margin_)

\* fi->Read(&x, sizeof(x)) at word pos: short when the stream has ended
ReadWord(s, pos) ==
  IF pos < Len(s) THEN [ok |-> TRUE, val |-> s[pos + 1], pos |-> pos + 1]
  ELSE [ok |-> FALSE, val |-> 0, pos |-> pos]

\* fi->Read(&vec): reads the length, resizes vec to it, then reads the
\* elements; a short read leaves vec resized and filled as far as the stream
\* went
ReadVec(s, pos, old) ==
  LET head == ReadWord(s, pos)
      avail == IF Len(s) - head.pos < head.val THEN Len(s) - head.pos ELSE head.val
  IN IF ~head.ok THEN [ok |-> FALSE, val |-> old, pos |-> pos]
     ELSE [ok |-> avail = head.val,
           val |-> [i \in 1..head.val |->
                      IF i <= avail THEN s[head.pos + i]
                      ELSE IF i <= Len(old) THEN old[i] ELSE 0],
           pos |-> head.pos + avail]

\* MetaInfo::LoadBinary: the MetaInfo afterwards and whether a CHECK failed.
\* Every read stores straight into the member it reads.
LoadBinary(m, s) ==
  LET version == ReadWord(s, 0) IN
  IF ~version.ok \/ version.val # SupportedMajor THEN [fatal |-> TRUE, info |-> m]
  ELSE
  LET r1 == ReadWord(s, version.pos)
      m1 == IF r1.ok THEN [m EXCEPT !.num_row_ = r1.val] ELSE m IN
  IF ~r1.ok THEN [fatal |-> TRUE, info |-> m1]
  ELSE
  LET r2 == ReadWord(s, r1.pos)
      m2 == IF r2.ok THEN [m1 EXCEPT !.num_col_ = r2.val] ELSE m1 IN
  IF ~r2.ok THEN [fatal |-> TRUE, info |-> m2]
  ELSE
  LET r3 == ReadWord(s, r2.pos)
      m3 == IF r3.ok THEN [m2 EXCEPT !.num_nonzero_ = r3.val] ELSE m2 IN
  IF ~r3.ok THEN [fatal |-> TRUE, info |-> m3]
  ELSE
  LET r4 == ReadVec(s, r3.pos, m3.labels_)
      m4 == [m3 EXCEPT !.labels_ = r4.val] IN
  IF ~r4.ok THEN [fatal |-> TRUE, info |-> m4]
  ELSE
  LET r5 == ReadVec(s, r4.pos, m4.group_ptr_)
      m5 == [m4 EXCEPT !.group_ptr_ = r5.val] IN
  IF ~r5.ok THEN [fatal |-> TRUE, info |-> m5]
  ELSE
  LET r6 == ReadVec(s, r5.pos, m5.weights_)
      m6 == [m5 EXCEPT !.weights_ = r6.val] IN
  IF ~r6.ok THEN [fatal |-> TRUE, info |-> m6]
  ELSE
  LET r7 == ReadVec(s, r6.pos, m6.base_margin_)
      m7 == [m6 EXCEPT !.base_margin_ = r7.val] IN
  [fatal |-> ~r7.ok, info |-> m7]

---------------------------------------------------------------------------
(* SpecBinary: a MetaInfo saved to, or loaded from, a stream *)

\* a second MetaInfo in use, differing from PopulatedInfo in every field
OtherInfo ==
  [num_row_ |-> 2, num_col_ |-> 5, num_nonzero_ |-> 3,
   labels_ |-> <<4, 6>>, group_ptr_ |-> <<0, 2>>, weights_ |-> <<3>>,
   base_margin_ |-> <<2, 2>>]

\* versions a stream may have been written by
Majors == {0, SupportedMajor, 2}

\* streams on disk: a MetaInfo saved by some version, whole or cut short
Streams ==
  UNION {{SubSeq(SaveBinary(m, major), 1, n) :
            n \in 0..Len(SaveBinary(m, major))} :
         m \in {ClearedInfo, PopulatedInfo, OtherInfo}, major \in Majors}

InitBinary ==
  /\ NoPages /\ NoJob /\ NoLoad
  /\ op = ""
  /\ info \in {ClearedInfo, PopulatedInfo, OtherInfo}
  /\ before = info
  /\ call = Idle
  /\ stream \in Streams

DoSaveBinary ==
  /\ op = ""
  /\ stream' = SaveBinary(info, SupportedMajor)
  /\ op' = "SaveBinary"
  /\ UNCHANGED <<pageVars, info, before, call, distVars, ld>>

DoLoadBinary ==
  /\ op \in {"", "SaveBinary"}
  /\ LET res == LoadBinary(info, stream)
     IN /\ info' = res.info
        /\ before' = info
        /\ op' = IF res.fatal THEN "fatal" ELSE "LoadBinary"
  /\ UNCHANGED <<pageVars, call, stream, distVars, ld>>

NextBinary == DoSaveBinary \/ DoLoadBinary

SpecBinary == InitBinary /\ [][NextBinary]_vars

\* C3: a LoadBinary that fails, on the major version or on a short read,
\* leaves every field of the MetaInfo as it was before the call.
C3_FailedLoadLeavesInfoUntouched ==
  op = "fatal" => info = before

\* the part of C3 that holds: a stream of another major version, or without
\* a version, fails and leaves the MetaInfo as it was
VersionMismatchLeavesInfoUntouched ==
  (op \in {"fatal", "LoadBinary"}
   /\ (stream = <<>> \/ stream[1] # SupportedMajor)) =>
    (op = "fatal" /\ info = before)

\* a whole stream of the supported version loads into what was saved
WholeStreamLoads ==
  (op = "LoadBinary") =>
    /\ stream = SaveBinary(info, SupportedMajor)

---------------------------------------------------------------------------
(* DMatrix::Create(source, cache_prefix) in a job of WorldSize workers *)

Ranks == 0..(WorldSize - 1)

\* column and row counts a worker's source may hold
ColCounts == {0, 7, 9}
RowCounts == {0, 3}

\* std::max_element over ncols, and std::distance to it (the first largest)
MaxOf(ncols) ==
  CHOOSE v \in {ncols[i] : i \in DOMAIN ncols} :
    \A i \in DOMAIN ncols : ncols[i] <= v

MaxInd(ncols) ==
  CHOOSE i \in DOMAIN ncols :
    /\ ncols[i] = MaxOf(ncols)
    /\ \A j \in DOMAIN ncols : ncols[j] = MaxOf(ncols) => i <= j

\* the validation loop accepting every count up to the maximum
FirstRejectedAboveMax(ncols) ==
  LET bad == {i \in DOMAIN ncols : ~(ncols[i] = 0 \/ ncols[i] <= MaxOf(ncols))}
  IN IF bad = {} THEN -1
     ELSE CHOOSE i \in bad : \A j \in bad : i <= j

\* for (i = 0; i < ncols.size(); ++i) CHECK(v == 0 || v == *max_cols):
\* the first rank the CHECK fails on, -1 when it fails on none
FirstRejected(ncols) ==
  LET bad == {i \in DOMAIN ncols : ~(ncols[i] = 0 \/ ncols[i] = MaxOf(ncols))}
  IN IF bad = {} THEN -1
     ELSE CHOOSE i \in bad : \A j \in bad : i <= j

\* rabit::Allreduce<Sum> over the workers' vectors
AllreduceSum(contrib) ==
  [i \in Ranks |-> SumSeq([k \in 1..WorldSize |-> contrib[k - 1][i]])]

NoError == [rank |-> -1, max_ind |-> -1]

InitCreate ==
  /\ NoPages /\ NoMeta /\ NoLoad
  /\ op = ""
  /\ \E cols \in [Ranks -> ColCounts], rows \in [Ranks -> RowCounts] :
       proc = [r \in Ranks |->
                 [pc |-> "start", num_row_ |-> rows[r], num_col_ |-> cols[r],
                  reported |-> cols[r], ncols |-> <<>>, dmat |-> "none",
                  error |-> NoError]]
  /\ \E dist \in BOOLEAN, prefix \in {"", "cache"} :
       coll = [is_distributed |-> dist, cache_prefix |-> prefix,
               contrib |-> [r \in Ranks |-> <<>>]]

\* Create up to the all-reduce: off the distributed in-memory path the
\* DMatrix is built at once
CreateEnter(r) ==
  /\ proc[r].pc = "start"
  /\ IF coll.cache_prefix # ""
       THEN /\ proc' = [proc EXCEPT ![r].pc = "done",
                                    ![r].dmat = "SparsePageDMatrix"]
            /\ UNCHANGED coll
     ELSE IF ~coll.is_distributed
       THEN /\ proc' = [proc EXCEPT ![r].pc = "done",
                                    ![r].dmat = "SimpleDMatrix"]
            /\ UNCHANGED coll
     ELSE
       \* std::vector<uint64_t> ncols(world_size, 0); ncols[rank] = num_col_
       LET mine == [i \in Ranks |-> IF i = r THEN proc[r].num_col_ ELSE 0]
       IN /\ proc' = [proc EXCEPT ![r].pc = "allreduce", ![r].ncols = mine]
          /\ coll' = [coll EXCEPT !.contrib[r] = mine]
  /\ UNCHANGED <<pageVars, metaVars, op, ld>>

\* the all-reduce returns once every worker has entered it; then the empty
\* worker adopts the maximum, and the counts are validated
CreateFinish(r) ==
  /\ proc[r].pc = "allreduce"
  /\ \A q \in Ranks : coll.contrib[q] # <<>>
  /\ LET ncols == AllreduceSum(coll.contrib)
         adopt == proc[r].num_col_ = 0 /\ proc[r].num_row_ = 0
         num_col == IF adopt THEN MaxOf(ncols) ELSE proc[r].num_col_
         rejected == FirstRejected(ncols)
     IN proc' = [proc EXCEPT
                   ![r].ncols = ncols,
                   ![r].num_col_ = num_col,
                   ![r].pc = IF rejected = -1 THEN "done" ELSE "fatal",
                   ![r].dmat = IF rejected = -1 THEN "SimpleDMatrix" ELSE "none",
                   ![r].error = IF rejected = -1 THEN NoError
                                ELSE [rank |-> rejected, max_ind |-> MaxInd(ncols)]]
  /\ UNCHANGED <<pageVars, metaVars, op, coll, ld>>

NextCreate == \E r \in Ranks : CreateEnter(r) \/ CreateFinish(r)

SpecCreate == InitCreate /\ [][NextCreate]_vars

\* the distributed in-memory path
Reconciling == coll.is_distributed /\ coll.cache_prefix = ""

MaxReported ==
  CHOOSE v \in {proc[r].reported : r \in Ranks} :
    \A r \in Ranks : proc[r].reported <= v

Mismatch == \E r \in Ranks : proc[r].reported \notin {0, MaxReported}

\* C4: when Create has returned a DMatrix on every worker of a distributed
\* job with an empty cache prefix, every worker's num_col_ is the maximum of
\* the reported counts, the workers that reported 0 included.
C4_AllWorkersAgreeOnColumns ==
  (Reconciling /\ \A r \in Ranks : proc[r].pc = "done") =>
    \A r \in Ranks : proc[r].num_col_ = MaxReported

\* what the code does give: the workers without rows and columns adopt the
\* maximum, and a worker with rows keeps the count it reported
EmptyWorkersAdoptMaximum ==
  (Reconciling /\ \A r \in Ranks : proc[r].pc = "done") =>
    \A r \in Ranks :
      proc[r].num_col_ =
        IF proc[r].reported = 0 /\ proc[r].num_row_ = 0 THEN MaxReported
        ELSE proc[r].reported

\* C5: in a distributed job with an empty cache prefix where some nonzero
\* report differs from the maximum, no worker ever obtains a DMatrix, every
\* worker that leaves the all-reduce ends in the fatal error, and the error
\* names a rank whose nonzero report differs from the maximum.
C5_MismatchIsFatalEverywhere ==
  (Reconciling /\ Mismatch) =>
    \A r \in Ranks :
      /\ proc[r].pc \in {"start", "allreduce", "fatal"}
      /\ proc[r].dmat = "none"
      /\ proc[r].pc = "fatal" =>
           /\ proc[r].error.rank \in Ranks
           /\ proc[proc[r].error.rank].reported \notin {0, MaxReported}
           /\ proc[proc[r].error.rank].reported = proc[r].ncols[proc[r].error.rank]
           /\ proc[proc[r].error.max_ind].reported = MaxReported

\* reports [7,9,7]: all three workers have ended in the fatal error, which
\* names rank 0 as differing from rank 1
C5_Witness ==
  /\ Reconciling
  /\ WorldSize >= 3
  /\ proc[0].reported = 7 /\ proc[1].reported = 9 /\ proc[2].reported = 7
  /\ \A r \in Ranks : proc[r].pc = "fatal"
  /\ proc[2].error = [rank |-> 0, max_ind |-> 1]

---------------------------------------------------------------------------
(* DMatrix::Load in a distributed job: the collectives each worker issues *)

LoadRanks == 0..(LoadWorldSize - 1)

\* what the file a worker names holds: a binary DMatrix (the magic number
\* leads), text the parser accepts, or text it fails on
FileKinds == {"binary", "text", "malformed"}

\* the partitions of the load: the job's workers when row-split, else the
\* value of XGBOOST_TEST_NPART
Npart(job) == IF job.load_row_split THEN LoadWorldSize ELSE job.test_npart

\* the legacy path: format auto, one partition, a leading binary magic number
TakesBinaryPath(w, job) ==
  w.file_format = "auto" /\ Npart(job) = 1 /\ w.file = "binary"

InitLoad ==
  /\ NoPages /\ NoMeta /\ NoLoad
  /\ op = ""
  /\ \E file \in [LoadRanks -> FileKinds],
        fmt \in [LoadRanks -> {"auto", "csv"}],
        cache \in [LoadRanks -> {"", "cache"}],
        cols \in [LoadRanks -> {7, 9}] :
       proc = [r \in LoadRanks |->
                 [pc |-> "start", file |-> file[r], file_format |-> fmt[r],
                  cache_file |-> cache[r], num_col_ |-> cols[r],
                  log |-> <<>>]]
  /\ \E split \in BOOLEAN, npart \in {1, 2} :
       coll = [load_row_split |-> split, test_npart |-> npart]

\* Load up to its first collective, or to its end when it issues none
LoadEnter(r) ==
  /\ proc[r].pc = "start"
  /\ proc' =
       IF TakesBinaryPath(proc[r], coll)
         THEN \* source->LoadBinary; DMatrix::Create(source, cache_file); return
              IF proc[r].cache_file # ""
                THEN [proc EXCEPT ![r].pc = "done"]
                ELSE [proc EXCEPT ![r].pc = "in_sum",
                                  ![r].log = Append(@, "Sum")]
       ELSE IF proc[r].file # "text"
         THEN \* the parser throws: LOG(FATAL) << "Encountered parser error"
              [proc EXCEPT ![r].pc = "fatal"]
       ELSE \* DMatrix::Create(parser, cache_file, page_size) issues none;
            \* then rabit::Allreduce<Max>(&num_col_, 1)
            [proc EXCEPT ![r].pc = "in_max", ![r].log = Append(@, "Max")]
  /\ UNCHANGED <<pageVars, metaVars, op, coll, ld>>

\* a collective returns once every worker has issued the same collective
Matched(r) ==
  \A q \in LoadRanks :
    /\ Len(proc[q].log) >= Len(proc[r].log)
    /\ proc[q].log[Len(proc[r].log)] = Back(proc[r].log)

\* the all-reduce of Create returns: the counts are validated, Load returns
SumReturn(r) ==
  /\ proc[r].pc = "in_sum"
  /\ Matched(r)
  /\ LET ncols == [q \in LoadRanks |-> proc[q].num_col_]
     IN proc' = [proc EXCEPT
                   ![r].pc = IF FirstRejected(ncols) = -1 THEN "done" ELSE "fatal"]
  /\ UNCHANGED <<pageVars, metaVars, op, coll, ld>>

\* the all-reduce of Load returns: num_col_ is the maximum, Load returns
MaxReturn(r) ==
  /\ proc[r].pc = "in_max"
  /\ Matched(r)
  /\ proc' = [proc EXCEPT
                ![r].pc = "done",
                ![r].num_col_ = MaxOf([q \in LoadRanks |-> proc[q].num_col_])]
  /\ UNCHANGED <<pageVars, metaVars, op, coll, ld>>

NextLoad == \E r \in LoadRanks : LoadEnter(r) \/ SumReturn(r) \/ MaxReturn(r)

SpecLoad == InitLoad /\ [][NextLoad]_vars

IsPrefix(s, t) == Len(s) <= Len(t) /\ SubSeq(t, 1, Len(s)) = s

Ended(r) == proc[r].pc \in {"done", "fatal"}

\* C8: whatever the workers' inputs, they issue the same collectives in the
\* same order: of any two workers one has issued a prefix of what the other
\* has, and a worker that has left Load has issued all that any other worker
\* issues, so no worker waits in a collective another never reaches.
C8_SameCollectivesOnEveryWorker ==
  \A r, q \in LoadRanks :
    /\ IsPrefix(proc[r].log, proc[q].log) \/ IsPrefix(proc[q].log, proc[r].log)
    /\ Ended(q) => IsPrefix(proc[r].log, proc[q].log)

\* the same for workers that are handed the same inputs, which does hold
SameInputsSameCollectives ==
  (\A r, q \in LoadRanks :
     /\ proc[r].file = proc[q].file
     /\ proc[r].file_format = proc[q].file_format
     /\ proc[r].cache_file = proc[q].cache_file) =>
    \A r, q \in LoadRanks :
      (Ended(r) /\ Ended(q)) => proc[r].log = proc[q].log

---------------------------------------------------------------------------
(* DMatrix::Load: the uri, the cache file name and the partition *)
(* A std::string is a sequence of one-character strings.           *)

\* std::string::find(c): the first position of c (0-based), -1 for npos
Find(str, c) ==
  IF \E i \in 1..Len(str) : str[i] = c
    THEN (CHOOSE i \in 1..Len(str) :
            str[i] = c /\ \A j \in 1..(i - 1) : str[j] # c) - 1
    ELSE -1

\* std::string::rfind(c): the last position of c (0-based), -1 for npos
RFind(str, c) ==
  IF \E i \in 1..Len(str) : str[i] = c
    THEN (CHOOSE i \in 1..Len(str) :
            str[i] = c /\ \A j \in (i + 1)..Len(str) : str[j] # c) - 1
    ELSE -1

\* std::string::substr(pos) and substr(0, n)
SubstrFrom(str, pos) == SubSeq(str, pos + 1, Len(str))
SubstrTo(str, n) == SubSeq(str, 1, n)

\* common::Split(s, delim): std::getline until the stream ends, so a piece
\* after the last delimiter counts only when it is not empty
RECURSIVE Split(_, _)
Split(str, delim) ==
  IF str = <<>> THEN <<>>
  ELSE LET pos == Find(str, delim)
       IN IF pos = -1 THEN <<str>>
          ELSE <<SubstrTo(str, pos)>> \o Split(SubstrFrom(str, pos + 1), delim)

\* operator<<(int): decimal digits
Digits == <<"0", "1", "2", "3", "4", "5", "6", "7", "8", "9">>

RECURSIVE IntToString(_)
IntToString(n) ==
  IF n < 10 THEN <<Digits[n + 1]>>
  ELSE IntToString(n \div 10) \o <<Digits[(n % 10) + 1]>>

\* ".r" << rank << "-" << world_size
RankTag(rank, world) == <<".", "r">> \o IntToString(rank) \o <<"-">> \o IntToString(world)

\* one cache shard rewritten: the tag goes before the last '.', or at the end
RewriteShard(shard, rank, world) ==
  LET pos == RFind(shard, ".")
  IN IF pos = -1 THEN shard \o RankTag(rank, world)
     ELSE SubstrTo(shard, pos) \o RankTag(rank, world) \o SubstrFrom(shard, pos)

\* the shards joined again, ':' after every shard but the last
RECURSIVE Join(_)
Join(shards) ==
  IF shards = <<>> THEN <<>>
  ELSE IF Len(shards) = 1 THEN shards[1]
  ELSE shards[1] \o <<":">> \o Join(Tail(shards))

RewriteCache(cache_file, rank, world) ==
  LET cache_shards == Split(cache_file, ":")
  IN Join([i \in 1..Len(cache_shards) |->
             RewriteShard(cache_shards[i], rank, world)])

\* DMatrix::Load up to the choice of the partition: fname, cache_file,
\* partid, npart, or the fatal error on a second '#'
ParseUri(uri, load_row_split, rank, world) ==
  LET dlm_pos == Find(uri, "#")
      cache_file == IF dlm_pos = -1 THEN <<>> ELSE SubstrFrom(uri, dlm_pos + 1)
      fname == IF dlm_pos = -1 THEN uri ELSE SubstrTo(uri, dlm_pos)
  IN IF Find(cache_file, "#") # -1
       THEN [state |-> "fatal", fname |-> fname, cache_file |-> cache_file,
             partid |-> 0, npart |-> 1]
     ELSE [state |-> "parsed",
           fname |-> fname,
           cache_file |-> IF dlm_pos # -1 /\ load_row_split
                            THEN RewriteCache(cache_file, rank, world)
                            ELSE cache_file,
           partid |-> IF load_row_split THEN rank ELSE 0,
           npart |-> IF load_row_split THEN world ELSE 1]

---------------------------------------------------------------------------
(* SpecUri: Load handed a uri by a worker of some rank *)

UriChars == {"a", ".", "/", ":", "#"}

\* "data.csv#cache/shard"
ExampleUri ==
  <<"d", "a", "t", "a", ".", "c", "s", "v", "#",
    "c", "a", "c", "h", "e", "/", "s", "h", "a", "r", "d">>

\* "cache/shard.r2-4"
ExampleCache ==
  <<"c", "a", "c", "h", "e", "/", "s", "h", "a", "r", "d", ".", "r", "2", "-", "4">>

Uris == UNION {[1..n -> UriChars] : n \in 0..MaxUriLen} \cup {ExampleUri}

\* world sizes of the job
Worlds == {4, 11}

InitUri ==
  /\ NoPages /\ NoMeta /\ NoJob
  /\ op = ""
  /\ \E uri \in Uris, split \in BOOLEAN, world \in Worlds :
       \E rank \in 0..(world - 1) :
         ld = [uri |-> uri, load_row_split |-> split, rank |-> rank,
               world |-> world, state |-> "called", fname |-> <<>>,
               cache_file |-> <<>>, partid |-> 0, npart |-> 1]

DoParseUri ==
  /\ ld.state = "called"
  /\ LET res == ParseUri(ld.uri, ld.load_row_split, ld.rank, ld.world)
     IN ld' = [ld EXCEPT !.state = res.state, !.fname = res.fname,
                         !.cache_file = res.cache_file,
                         !.partid = res.partid, !.npart = res.npart]
  /\ UNCHANGED <<pageVars, metaVars, distVars, op>>

NextUri == DoParseUri

SpecUri == InitUri /\ [][NextUri]_vars

\* the file extension of a path: from the last '.' of its last component
ExtensionPos(path) ==
  LET slash == RFind(path, "/")
      dot == RFind(path, ".")
  IN IF dot > slash THEN dot ELSE -1

\* the tag inserted before the file extension, appended when there is none
TagBeforeExtension(shard, rank, world) ==
  LET pos == ExtensionPos(shard)
  IN IF pos = -1 THEN shard \o RankTag(rank, world)
     ELSE SubstrTo(shard, pos) \o RankTag(rank, world) \o SubstrFrom(shard, pos)

\* the cache suffix of the uri being loaded
CacheSuffix == SubstrFrom(ld.uri, Find(ld.uri, "#") + 1)

RowSplitCache ==
  ld.state = "parsed" /\ ld.load_row_split /\ Find(ld.uri, "#") # -1

\* C9: with row-split, every colon-separated shard of the cache suffix gets
\* .r{rank}-{worldSize} before its file extension, or at its end when it has
\* none; "data.csv#cache/shard" at rank 2 of 4 gives "cache/shard.r2-4"; and
\* every other rank of the same world size gets another path in every shard.
C9_TagBeforeFileExtension ==
  RowSplitCache =>
    LET shards == Split(CacheSuffix, ":")
        mine == Split(ld.cache_file, ":")
    IN /\ ld.cache_file =
            Join([i \in 1..Len(shards) |->
                    TagBeforeExtension(shards[i], ld.rank, ld.world)])
       /\ (ld.uri = ExampleUri /\ ld.rank = 2 /\ ld.world = 4) =>
            ld.cache_file = ExampleCache
       /\ \A other \in (0..(ld.world - 1)) \ {ld.rank} :
            LET theirs == Split(RewriteCache(CacheSuffix, other, ld.world), ":")
            IN /\ Len(theirs) = Len(mine)
               /\ \A i \in 1..Len(mine) : theirs[i] # mine[i]

\* the parts of C9 that hold: the example, and no two ranks of one world size
\* share a shard path
ExampleAndNoCollision ==
  RowSplitCache =>
    LET mine == Split(ld.cache_file, ":")
    IN /\ (ld.uri = ExampleUri /\ ld.rank = 2 /\ ld.world = 4) =>
            ld.cache_file = ExampleCache
       /\ \A other \in (0..(ld.world - 1)) \ {ld.rank} :
            LET theirs == Split(RewriteCache(CacheSuffix, other, ld.world), ":")
            IN /\ Len(theirs) = Len(mine)
               /\ \A i \in 1..Len(mine) : theirs[i] # mine[i]

===========================================================================
